---- MODULE Spec2Model ----
(***************************************************************************)
(* A model of package toobz (src/unpack.go): the zboot header decoder,     *)
(* its validation, the payload extraction and the writer.                  *)
(*                                                                         *)
(* Bytes are naturals 0..255, byte slices are sequences.  A uint32 is kept *)
(* as its two 16-bit halves [hi, lo] so that 32-bit wraparound is computed *)
(* exactly.  An error is a record [msg, wraps]: msg is Error(), wraps the  *)
(* set of sentinel errors errors.Is finds in it.                           *)
(***************************************************************************)
EXTENDS Integers, Sequences, FiniteSets, TLC

\* ---------------------------------------------------------------- bounds
\* Longest junk payload placed after the header in the generated inputs.
MaxJunk == 2
\* The number of bytes beyond HeaderSize that the longest slack (the bytes
\* after the payload) has.
MaxExtraSlack == 0
\* The largest number of bytes a limited sink takes.
MaxRoom == 0

\* ------------------------------------------------------------- constants
ARM64MagicOffset == 56
\* binary.Size(Header{}): 2+2+4+4+4+8+32+4+4
HeaderSize == 64
\* io.ReadAll starts with a 512-byte buffer
ReadAllCap == 512

\* ---------------------------------------------------------------- helpers
Min(a, b) == IF a < b THEN a ELSE b

Zeros(n) == [i \in 1..n |-> 0]

\* s[from:to] of Go, 0-based, half-open
Slice(s, from, to) == SubSeq(s, from + 1, to)

\* ----------------------------------------------------------------- errors
Nil == [msg |-> "<nil>", wraps |-> {}]

\* errors.New / fmt.Errorf
ErrorNew(m) == [msg |-> m, wraps |-> {}]

\* ErrIsInvalidContent = errors.New("invalid content data")
ErrIsInvalidContent == [msg |-> "invalid content data", wraps |-> {"ErrIsInvalidContent"}]

\* errors.Join(a, b): the messages joined by a newline, Is matches either
ErrorsJoin(a, b) == [msg |-> a.msg \o "\n" \o b.msg, wraps |-> a.wraps \cup b.wraps]

\* errors.Is(err, ErrIsInvalidContent)
IsInvalidContent(err) == "ErrIsInvalidContent" \in err.wraps

\* io.EOF and io.ErrUnexpectedEOF
EOF == ErrorNew("EOF")
ErrUnexpectedEOF == ErrorNew("unexpected EOF")

\* ----------------------------------------------------------------- uint32
U32(h, l) == [hi |-> h, lo |-> l]

\* binary.LittleEndian.Uint32 of 4 bytes
U32FromLE(b) == U32(b[3] + 256 * b[4], b[1] + 256 * b[2])

\* a + b on uint32: the carry out of bit 31 is dropped
U32Add(a, b) ==
  LET l == a.lo + b.lo
      h == a.hi + b.hi + (l \div 65536)
  IN U32(h % 65536, l % 65536)

U32IsZero(a) == a.hi = 0 /\ a.lo = 0

\* int(a) > n for a Go int 0 <= n < 2^31 (int is 64 bits wide: no sign change)
U32GreaterThanInt(a, n) ==
  \/ a.hi > n \div 65536
  \/ (a.hi = n \div 65536 /\ a.lo > n % 65536)

\* int(a), for values below 2^31
U32ToInt(a) == a.hi * 65536 + a.lo

\* ------------------------------------------------------------------ Datum
\* uint8(chr) for the runes of the registry's payload strings
Rune(c) ==
  CASE c = "A" -> 65 [] c = "C" -> 67 [] c = "L" -> 76 [] c = "M" -> 77
    [] c = "R" -> 82 [] c = "S" -> 83 [] c = "Z" -> 90 [] c = "g" -> 103
    [] c = "i" -> 105 [] c = "m" -> 109 [] c = "n" -> 110 [] c = "p" -> 112
    [] c = "u" -> 117 [] c = "x" -> 120 [] c = "z" -> 122

\* Datum{payload, padding, addByte, raw}; payload is kept as its runes
Datum(p, pad, add, r) == [payload |-> p, padding |-> pad, addByte |-> add, raw |-> r]

LinuxMagic == Datum(<<"L", "i", "n", "u", "x">>, 0, 0, <<205, 35, 130, 129>>)
ARM == Datum(<<"A", "R", "M">>, 0, 100, <<>>)
RISC == Datum(<<"R", "S", "C">>, 0, 5, <<>>)
Gzip == Datum(<<"g", "z", "i", "p">>, 32, 0, <<>>)
MSDOSMagic == Datum(<<"M", "Z">>, 0, 0, <<>>)
ZImg == Datum(<<"z", "i", "m", "g">>, 0, 0, <<>>)

RECURSIVE Concat(_)
Concat(cs) == IF Len(cs) = 0 THEN "" ELSE Head(cs) \o Concat(Tail(cs))

\* Datum.Value
Value(d) == Concat(d.payload)

toUint8Padded(s, to) ==
  LET r == [i \in 1..Len(s) |-> Rune(s[i]) % 256]
  IN IF Len(r) < to THEN r \o Zeros(to - Len(r)) ELSE r

\* Data from payload and padding alone
DataPayloadOnly(d) == toUint8Padded(d.payload, d.padding)

\* Datum.Data
Data(d) ==
  IF Len(d.raw) > 0 THEN d.raw
  ELSE LET b == toUint8Padded(d.payload, d.padding)
       IN IF d.addByte > 0 THEN Append(b, d.addByte) ELSE b

\* ------------------------------------------------------------ check.verify
RECURSIVE JoinDecimal(_)
JoinDecimal(b) ==
  IF Len(b) = 0 THEN ""
  ELSE IF Len(b) = 1 THEN ToString(b[1])
  ELSE ToString(b[1]) \o " " \o JoinDecimal(Tail(b))

\* fmt.Sprintf("%v", b) of a []uint8: "[77 90]"
SprintfV(b) == "[" \o JoinDecimal(b) \o "]"

\* check{left, right}.verify()
verify(left, right) ==
  LET l == SprintfV(left)
      r == SprintfV(Data(right))
  IN IF l # r
     THEN ErrorsJoin(ErrIsInvalidContent,
                     ErrorNew(Value(right) \o " invalid data: " \o l \o " != " \o r))
     ELSE Nil

\* ----------------------------------------------------------------- Header
ZeroHeader ==
  [MSDOSMagic |-> Zeros(2), Reserved0 |-> Zeros(2), ZImg |-> Zeros(4),
   PayloadOffset |-> U32(0, 0), PayloadSize |-> U32(0, 0), Reserved1 |-> Zeros(8),
   CompressionType |-> Zeros(32), LinuxMagic |-> Zeros(4), PEHeaderOffset |-> U32(0, 0)]

\* the fields of Header in declaration order, little-endian, no padding
DecodeHeader(b) ==
  [MSDOSMagic |-> Slice(b, 0, 2), Reserved0 |-> Slice(b, 2, 4), ZImg |-> Slice(b, 4, 8),
   PayloadOffset |-> U32FromLE(Slice(b, 8, 12)), PayloadSize |-> U32FromLE(Slice(b, 12, 16)),
   Reserved1 |-> Slice(b, 16, 24), CompressionType |-> Slice(b, 24, 56),
   LinuxMagic |-> Slice(b, 56, 60), PEHeaderOffset |-> U32FromLE(Slice(b, 60, 64))]

\* ----------------------------------------------------------- bytes.Reader
\* bytes.NewReader(b): the slice and the read position
NewReader(b) == [isNil |-> FALSE, s |-> b, i |-> 0]

NilReader == [isNil |-> TRUE, s |-> <<>>, i |-> 0]

\* r.Len(): the number of bytes of the unread portion
ReaderLen(r) == IF r.i >= Len(r.s) THEN 0 ELSE Len(r.s) - r.i

\* BinaryRead that ignores a short read and decodes what it got, zero-filled
BinaryReadPadded(r) ==
  LET got == Slice(r.s, r.i, Len(r.s))
      b == got \o Zeros(HeaderSize - Len(got))
  IN [err |-> Nil, hdr |-> DecodeHeader(Slice(b, 0, HeaderSize)),
      r |-> [r EXCEPT !.i = Min(Len(r.s), r.i + HeaderSize)]]

\* binary.Read(r, binary.LittleEndian, &hdr): io.ReadFull of HeaderSize
\* bytes from the read position, then the decode
BinaryRead(r) ==
  LET avail == ReaderLen(r)
  IN IF avail = 0 THEN [err |-> EOF, hdr |-> ZeroHeader, r |-> r]
     ELSE IF avail < HeaderSize
     THEN [err |-> ErrUnexpectedEOF, hdr |-> ZeroHeader, r |-> [r EXCEPT !.i = Len(r.s)]]
     ELSE [err |-> Nil, hdr |-> DecodeHeader(Slice(r.s, r.i, r.i + HeaderSize)),
           r |-> [r EXCEPT !.i = @ + HeaderSize]]

\* ReadAt that counts off from the read position instead of the start
ReadAtFromPosition(r, n, off) ==
  IF off.hi >= 32768 \/ r.i + U32ToInt(off) >= Len(r.s)
  THEN [n |-> 0, data |-> <<>>, err |-> EOF]
  ELSE LET o == r.i + U32ToInt(off)
           avail == Len(r.s) - o
       IN IF U32GreaterThanInt(n, avail)
          THEN [n |-> avail, data |-> Slice(r.s, o, Len(r.s)), err |-> EOF]
          ELSE [n |-> U32ToInt(n), data |-> Slice(r.s, o, o + U32ToInt(n)), err |-> Nil]

\* r.ReadAt(sub, off) with len(sub) = n: absolute offset, position untouched
ReadAt(r, n, off) ==
  IF off.hi >= 32768 \/ U32ToInt(off) >= Len(r.s)
  THEN [n |-> 0, data |-> <<>>, err |-> EOF]
  ELSE LET o == U32ToInt(off)
           avail == Len(r.s) - o
       IN IF U32GreaterThanInt(n, avail)
          THEN [n |-> avail, data |-> Slice(r.s, o, Len(r.s)), err |-> EOF]
          ELSE [n |-> U32ToInt(n), data |-> Slice(r.s, o, o + U32ToInt(n)), err |-> Nil]

\* --------------------------------------------------------------- BootInfo
Unpacker(decompress, parseBody) == [Decompress |-> decompress, ParseBody |-> parseBody]

BootInfo(hdr, body, u) == [Header |-> hdr, body |-> body, unpacker |-> u]

\* BootInfo{}
ZeroBootInfo == BootInfo(ZeroHeader, <<>>, Unpacker(FALSE, FALSE))

\* VerifyMagic in the order the fields are declared: DOS, zimg, Linux
VerifyMagicDeclared(hdr) ==
  LET e1 == verify(hdr.MSDOSMagic, MSDOSMagic)
      e2 == verify(hdr.ZImg, ZImg)
      e3 == verify(hdr.LinuxMagic, LinuxMagic)
  IN IF e1 # Nil THEN e1 ELSE IF e2 # Nil THEN e2 ELSE e3

\* the loop over the three checks: the first error ends it
VerifyMagic(hdr) ==
  LET e1 == verify(hdr.MSDOSMagic, MSDOSMagic)
      e2 == verify(hdr.LinuxMagic, LinuxMagic)
      e3 == verify(hdr.ZImg, ZImg)
  IN IF e1 # Nil THEN e1 ELSE IF e2 # Nil THEN e2 ELSE e3

\* int(hdr.PayloadOffset+hdr.PayloadSize) > size
BeyondSize(hdr, size) == U32GreaterThanInt(U32Add(hdr.PayloadOffset, hdr.PayloadSize), size)

\* Validate with the checks of the payload bounds ahead of the magic checks
ValidateBoundsFirst(hdr, size) ==
  IF U32IsZero(hdr.PayloadOffset) \/ U32IsZero(hdr.PayloadSize)
  THEN ErrorNew("payload size/offset is zero")
  ELSE IF U32GreaterThanInt(U32Add(hdr.PayloadOffset, hdr.PayloadSize), size)
  THEN ErrorNew("invalid offset/payload, beyond size")
  ELSE verify(hdr.MSDOSMagic, MSDOSMagic)

\* Validate that takes the payload for zero only when offset and size both are
ValidateZeroBoth(hdr, size) ==
  IF verify(hdr.MSDOSMagic, MSDOSMagic) # Nil THEN verify(hdr.MSDOSMagic, MSDOSMagic)
  ELSE IF verify(hdr.LinuxMagic, LinuxMagic) # Nil THEN verify(hdr.LinuxMagic, LinuxMagic)
  ELSE IF verify(hdr.ZImg, ZImg) # Nil THEN verify(hdr.ZImg, ZImg)
  ELSE IF U32IsZero(hdr.PayloadOffset) /\ U32IsZero(hdr.PayloadSize)
  THEN ErrorNew("payload size/offset is zero")
  ELSE IF U32GreaterThanInt(U32Add(hdr.PayloadOffset, hdr.PayloadSize), size)
  THEN ErrorNew("invalid offset/payload, beyond size")
  ELSE Nil

\* the checks of the decoded header against a reader of size unread bytes,
\* in the order of the code: the first one violated gives the error
Validate(hdr, size) ==
  IF VerifyMagic(hdr) # Nil THEN VerifyMagic(hdr)
  ELSE IF U32IsZero(hdr.PayloadOffset) \/ U32IsZero(hdr.PayloadSize)
  THEN ErrorNew("payload size/offset is zero")
  ELSE IF BeyondSize(hdr, size)
  THEN ErrorNew("invalid offset/payload, beyond size")
  ELSE Nil

\* Extract that reads the body whether or not ParseBody is set
ExtractAlways(u, r, hdr) ==
  LET ra == ReadAt(r, hdr.PayloadSize, hdr.PayloadOffset)
  IN IF ra.err # Nil THEN [body |-> <<>>, err |-> ra.err]
     ELSE [body |-> ra.data, err |-> Nil]

\* the body: nil unless ParseBody, else PayloadSize bytes read at PayloadOffset
\* (make([]byte, PayloadSize) is taken to succeed)
Extract(u, r, hdr) ==
  IF u.ParseBody
  THEN LET ra == ReadAt(r, hdr.PayloadSize, hdr.PayloadOffset)
       IN IF ra.err # Nil THEN [body |-> <<>>, err |-> ra.err]
          ELSE IF ra.n = 0 THEN [body |-> <<>>, err |-> ErrorNew("invalid seek, zero")]
          ELSE [body |-> ra.data, err |-> Nil]
  ELSE [body |-> <<>>, err |-> Nil]

\* Unpacker.ReadInfo: the BootInfo, the error and the reader afterwards
ReadInfo(u, r) ==
  IF r.isNil THEN [info |-> ZeroBootInfo, err |-> ErrorNew("reader is nil"), r |-> r]
  ELSE
  LET rd == BinaryRead(r)
      hdr == rd.hdr
      verr == Validate(hdr, ReaderLen(rd.r))
      ex == Extract(u, rd.r, hdr)
      fail(e) == [info |-> ZeroBootInfo, err |-> e, r |-> rd.r]
  IN IF rd.err # Nil THEN fail(rd.err)
     ELSE IF verr # Nil THEN fail(verr)
     ELSE IF ex.err # Nil THEN fail(ex.err)
     ELSE [info |-> BootInfo(hdr, ex.body, u), err |-> Nil, r |-> rd.r]

\* ------------------------------------------------------------------- gzip
\* compress/gzip with compress/flate and hash/crc32 as decompressGunzip
\* uses them.

RECURSIVE XorBits(_, _, _)
XorBits(a, b, n) ==
  IF n = 0 THEN 0 ELSE ((a + b) % 2) + 2 * XorBits(a \div 2, b \div 2, n - 1)

U32Xor(a, b) == U32(XorBits(a.hi, b.hi, 16), XorBits(a.lo, b.lo, 16))

\* one bit of the reflected CRC-32 (polynomial 0xEDB88320)
CrcShift(c) ==
  LET s == U32(c.hi \div 2, (c.lo \div 2) + (c.hi % 2) * 32768)
  IN IF c.lo % 2 = 1 THEN U32Xor(s, U32(60856, 33568)) ELSE s

\* crc32.IEEETable: eight shifts of each byte value
IEEETable ==
  [i \in 0..255 |->
     CrcShift(CrcShift(CrcShift(CrcShift(CrcShift(CrcShift(CrcShift(CrcShift(U32(0, i)))))))))]

\* crc = IEEETable[byte(crc)^b] ^ (crc >> 8)
CrcByte(c, b) ==
  U32Xor(IEEETable[XorBits(c.lo % 256, b, 8)],
         U32(c.hi \div 256, (c.lo \div 256) + (c.hi % 256) * 256))

\* crc32.Update: the register c taken over data[lo..hi], by halves (the
\* test of c.hi has the register computed before the next bytes are taken)
RECURSIVE CrcUpdate(_, _, _, _)
CrcUpdate(c, data, lo, hi) ==
  IF c.hi < 0 \/ lo > hi THEN c
  ELSE IF lo = hi THEN CrcByte(c, data[lo])
  ELSE CrcUpdate(CrcUpdate(c, data, lo, (lo + hi) \div 2), data, (lo + hi) \div 2 + 1, hi)

\* crc32.ChecksumIEEE
CRC32(data) == U32Xor(CrcUpdate(U32(65535, 65535), data, 1, Len(data)), U32(65535, 65535))

\* flate.CorruptInputError(offset)
CorruptInputError(offset) ==
  ErrorNew("flate: corrupt input before offset " \o ToString(offset))

ErrHeader == ErrorNew("gzip: invalid header")
ErrChecksum == ErrorNew("gzip: invalid checksum")

\* byte i (from 0) of in for a reader that has pulled rd bytes: the bits it
\* has not pulled are zero in the register f.b
Pulled(in, rd, i) == IF i < rd THEN in[i + 1] ELSE 0

\* the n <= 16 bits of f.b from bit bp of in on, the first bit lowest
Bits(in, rd, bp, n) ==
  ((Pulled(in, rd, bp \div 8) + 256 * Pulled(in, rd, bp \div 8 + 1)
      + 65536 * Pulled(in, rd, bp \div 8 + 2)) \div 2^(bp % 8)) % 2^n

\* moreBits until f.nb >= n: the bytes pulled afterwards (beyond Len(in)
\* when the reader runs dry)
Need(rd, bp, n) == IF 8 * rd - bp >= n THEN rd ELSE (bp + n + 7) \div 8

\* huffmanDecoder.init, the check of the coding: code after the loop over
\* the lengths min..max
RECURSIVE KraftSum(_, _, _)
KraftSum(count, l, max) ==
  IF l > max THEN 0 ELSE count[l] * 2^(max - l) + KraftSum(count, l + 1, max)

\* the symbols in the order of their codes: by length, then by value
RECURSIVE SymbolsFrom(_, _)
SymbolsFrom(lengths, l) ==
  IF l > 15 THEN <<>>
  ELSE SelectSeq([i \in 1..Len(lengths) |-> i - 1], LAMBDA x : lengths[x + 1] = l)
         \o SymbolsFrom(lengths, l + 1)

\* the decoder of the used lengths: ok is what init returns
InitUsed(lengths, count, used) ==
  [ok |-> used = {}
          \/ KraftSum(count, 1, 15) = 32768
          \/ (used = {1} /\ count[1] = 1),
   min |-> IF used = {} THEN 0 ELSE CHOOSE l \in used : \A m \in used : l <= m,
   count |-> count,
   symbol |-> SymbolsFrom(lengths, 1)]

InitCount(lengths, count) == InitUsed(lengths, count, {l \in 1..15 : count[l] > 0})

\* huffmanDecoder.init(lengths)
HuffmanInit(lengths) ==
  InitCount(lengths, [l \in 1..15 |-> Cardinality({i \in 1..Len(lengths) : lengths[i] = l})])

\* h.chunks and h.links looked up with the 15 bits w: the length n of the
\* code that starts w (0 when there is none) and its symbol
RECURSIVE Chunk(_, _, _, _, _, _)
Chunk(h, w, l, code, first, index) ==
  IF l > 15 THEN [n |-> 0, sym |-> 0]
  ELSE IF code + ((w \div 2^(l - 1)) % 2) - h.count[l] < first
  THEN [n |-> l, sym |-> h.symbol[index + code + ((w \div 2^(l - 1)) % 2) - first + 1]]
  ELSE Chunk(h, w, l + 1, 2 * (code + ((w \div 2^(l - 1)) % 2)), 2 * (first + h.count[l]),
             index + h.count[l])

\* the loop of huffSym once rd bytes are pulled: the symbol when its code
\* lies in the bits pulled, else more bytes for the length the table gave
RECURSIVE huffSym(_, _, _, _, _)
RECURSIVE huffSymPulled(_, _, _, _, _)
huffSym(in, rd, bp, h, n) ==
  IF Need(rd, bp, n) > Len(in)
  THEN [err |-> ErrUnexpectedEOF, sym |-> 0, rd |-> Len(in), bp |-> bp]
  ELSE huffSymPulled(in, Need(rd, bp, n), bp, h, Chunk(h, Bits(in, Need(rd, bp, n), bp, 15), 1, 0, 0, 0))

huffSymPulled(in, rd, bp, h, c) ==
  IF c.n > 8 * rd - bp THEN huffSym(in, rd, bp, h, c.n)
  ELSE IF c.n = 0 THEN [err |-> CorruptInputError(rd), sym |-> 0, rd |-> rd, bp |-> bp]
  ELSE [err |-> Nil, sym |-> c.sym, rd |-> rd, bp |-> bp + c.n]

\* the decoder without a code, the zero huffmanDecoder
NoDecoder == [ok |-> TRUE, min |-> 0, count |-> [l \in 1..15 |-> 0], symbol |-> <<>>]

\* fixedHuffmanDecoder: 8 bits for 0..143, 9 for 144..255, 7 for 256..279
\* and 8 for 280..287
fixedHuffmanDecoder ==
  HuffmanInit([i \in 1..288 |-> IF i <= 144 THEN 8 ELSE IF i <= 256 THEN 9
                                 ELSE IF i <= 280 THEN 7 ELSE 8])

\* codeOrder, the order of the code length codes
codeOrder == <<16, 17, 18, 0, 8, 7, 9, 6, 10, 5, 11, 4, 12, 3, 13, 2, 14, 1, 15>>

\* the decompressor: bp bits of rd pulled bytes used, the output so far,
\* f.err (done for io.EOF), f.final, the step ("head" for nextBlock, "lens"
\* inside readHuffman, "huff" for huffmanBlock), f.hl and f.hd (fixed for
\* f.hd == nil), and of readHuffman f.bits, nlit and ndist
NewDecompressor ==
  [bp |-> 0, rd |-> 0, out |-> <<>>, err |-> Nil, done |-> FALSE, final |-> FALSE,
   step |-> "head", hl |-> NoDecoder, hd |-> NoDecoder, fixed |-> FALSE,
   bits |-> <<>>, nlit |-> 0, ndist |-> 0]

\* f.err = e with rd bytes pulled
Failed(f, e, rd) == [f EXCEPT !.err = e, !.rd = rd]

\* finishBlock
finishBlock(f) ==
  IF f.final THEN [f EXCEPT !.done = TRUE] ELSE [f EXCEPT !.step = "head"]

\* dataBlock and copyData once the rest of the byte is dropped: rd bytes
\* pulled, n and nn the two lengths
copyData(in, f, rd, n, nn) ==
  IF nn # 65535 - n THEN Failed(f, CorruptInputError(rd + 4), rd + 4)
  ELSE IF rd + 4 + n > Len(in)
  THEN [f EXCEPT !.out = @ \o Slice(in, rd + 4, Len(in)), !.err = ErrUnexpectedEOF,
                 !.rd = Len(in)]
  ELSE finishBlock([f EXCEPT !.out = @ \o Slice(in, rd + 4, rd + 4 + n),
                             !.rd = rd + 4 + n, !.bp = 8 * (rd + 4 + n)])

\* dataBlock: a stored block
dataBlock(in, f, rd) ==
  IF rd + 4 > Len(in) THEN Failed(f, ErrUnexpectedEOF, Len(in))
  ELSE copyData(in, f, rd, in[rd + 1] + 256 * in[rd + 2], in[rd + 3] + 256 * in[rd + 4])

\* f.codebits: the nclen lengths read in codeOrder, the others zero
Codebits(in, rd, bp, nclen) ==
  [c \in 1..19 |->
     LET k == CHOOSE j \in 1..19 : codeOrder[j] = c - 1
     IN IF k <= nclen THEN Bits(in, rd, bp + 3 * (k - 1), 3) ELSE 0]

\* readHuffman after HLIT, HDIST and HCLEN: the code length code
readCodebits(in, f, rd, bp, nclen, h) ==
  IF ~h.ok THEN Failed(f, CorruptInputError(rd), rd)
  ELSE [f EXCEPT !.rd = rd, !.bp = bp + 3 * nclen, !.hl = h, !.bits = <<>>, !.step = "lens"]

\* readHuffman up to the code length code; bp is past the block header and
\* rd has the 14 bits of the three counts
readHuffman(in, f, rd, bp, nlit, ndist, nclen) ==
  IF nlit > 286 \/ ndist > 30 THEN Failed(f, CorruptInputError(rd), rd)
  ELSE IF Need(rd, bp + 14, 3 * nclen) > Len(in) THEN Failed(f, ErrUnexpectedEOF, Len(in))
  ELSE readCodebits(in, [f EXCEPT !.nlit = nlit, !.ndist = ndist, !.fixed = FALSE],
                    Need(rd, bp + 14, 3 * nclen), bp + 14, nclen,
                    HuffmanInit(Codebits(in, Need(rd, bp + 14, 3 * nclen), bp + 14, nclen)))

\* nextBlock once the 3 bits of the block header are pulled: hdr
blockOfType(in, f, rd, bp, typ) ==
  CASE typ = 0 -> dataBlock(in, f, rd)
    [] typ = 1 -> [f EXCEPT !.rd = rd, !.bp = bp, !.hl = fixedHuffmanDecoder,
                            !.hd = NoDecoder, !.fixed = TRUE, !.step = "huff"]
    [] typ = 2 ->
       IF Need(rd, bp, 14) > Len(in) THEN Failed(f, ErrUnexpectedEOF, Len(in))
       ELSE readHuffman(in, f, Need(rd, bp, 14), bp,
                        Bits(in, Need(rd, bp, 14), bp, 5) + 257,
                        Bits(in, Need(rd, bp, 14), bp + 5, 5) + 1,
                        Bits(in, Need(rd, bp, 14), bp + 10, 4) + 4)
    [] typ = 3 -> Failed(f, CorruptInputError(rd), rd)

\* nextBlock
nextBlock(in, f) ==
  IF Need(f.rd, f.bp, 3) > Len(in) THEN Failed(f, ErrUnexpectedEOF, Len(in))
  ELSE blockOfType(in, [f EXCEPT !.final = Bits(in, Need(f.rd, f.bp, 3), f.bp, 1) = 1],
                   Need(f.rd, f.bp, 3), f.bp + 3, Bits(in, Need(f.rd, f.bp, 3), f.bp + 1, 2))

\* readHuffman at its end: the decoders of the nlit and ndist lengths read,
\* h1.min raised to the length of the end of block marker
initDecoders(f, h1, h2) ==
  IF ~h1.ok \/ ~h2.ok THEN Failed(f, CorruptInputError(f.rd), f.rd)
  ELSE [f EXCEPT !.hl = IF h1.min < f.bits[257] THEN [h1 EXCEPT !.min = f.bits[257]] ELSE h1,
                 !.hd = h2, !.step = "huff"]

\* a repeat code of readHuffman: rep more lengths b after nb extra bits
repeatLength(in, f, s, nb, rep, b) ==
  IF Need(s.rd, s.bp, nb) > Len(in) THEN Failed(f, ErrUnexpectedEOF, Len(in))
  ELSE IF Len(f.bits) + rep + Bits(in, Need(s.rd, s.bp, nb), s.bp, nb) > f.nlit + f.ndist
  THEN Failed(f, CorruptInputError(Need(s.rd, s.bp, nb)), Need(s.rd, s.bp, nb))
  ELSE [f EXCEPT !.rd = Need(s.rd, s.bp, nb), !.bp = s.bp + nb,
                 !.bits = @ \o [j \in 1..(rep + Bits(in, Need(s.rd, s.bp, nb), s.bp, nb)) |-> b]]

\* one turn of the loop of readHuffman over the lengths: s is the symbol
\* huffSym gave
codeLength(in, f, s) ==
  IF s.err # Nil THEN Failed(f, s.err, s.rd)
  ELSE IF s.sym < 16 THEN [f EXCEPT !.rd = s.rd, !.bp = s.bp, !.bits = Append(@, s.sym)]
  ELSE IF s.sym = 16
  THEN IF Len(f.bits) = 0 THEN Failed(f, CorruptInputError(s.rd), s.rd)
       ELSE repeatLength(in, f, s, 2, 3, f.bits[Len(f.bits)])
  ELSE IF s.sym = 17 THEN repeatLength(in, f, s, 3, 3, 0)
  ELSE repeatLength(in, f, s, 7, 11, 0)

\* the length of a match and the number of its extra bits for symbol v of
\* 257..285
MatchLength(v) ==
  IF v < 265 THEN [length |-> v - 254, n |-> 0]
  ELSE IF v < 269 THEN [length |-> v * 2 - 519, n |-> 1]
  ELSE IF v < 273 THEN [length |-> v * 4 - 1057, n |-> 2]
  ELSE IF v < 277 THEN [length |-> v * 8 - 2149, n |-> 3]
  ELSE IF v < 281 THEN [length |-> v * 16 - 4365, n |-> 4]
  ELSE IF v < 285 THEN [length |-> v * 32 - 8861, n |-> 5]
  ELSE [length |-> 258, n |-> 0]

\* bits.Reverse8 of the 5 bits of a fixed distance code
Reverse5(b) ==
  16 * (b % 2) + 8 * ((b \div 2) % 2) + 4 * ((b \div 4) % 2) + 2 * ((b \div 8) % 2) + (b \div 16)

\* the copy of length bytes from dist back, unless dist is beyond the output
copyHistory(f, rd, bp, length, dist) ==
  IF dist > Min(Len(f.out), 32768) THEN Failed(f, CorruptInputError(rd), rd)
  ELSE [f EXCEPT !.rd = rd, !.bp = bp,
                 !.out = @ \o [j \in 1..length |-> @[Len(@) - dist + 1 + ((j - 1) % dist)]]]

\* the distance of code dist with its extra bits, then the copy
copyDistance(in, f, rd, bp, length, dist) ==
  IF dist < 4 THEN copyHistory(f, rd, bp, length, dist + 1)
  ELSE IF dist >= 30 THEN Failed(f, CorruptInputError(rd), rd)
  ELSE IF Need(rd, bp, (dist - 2) \div 2) > Len(in) THEN Failed(f, ErrUnexpectedEOF, Len(in))
  ELSE copyHistory(f, Need(rd, bp, (dist - 2) \div 2), bp + (dist - 2) \div 2, length,
                   2^((dist - 2) \div 2 + 1) + 1 + (dist % 2) * 2^((dist - 2) \div 2)
                     + Bits(in, Need(rd, bp, (dist - 2) \div 2), bp, (dist - 2) \div 2))

\* the distance code after a length: 5 reversed bits under the fixed
\* code, else a symbol of f.hd
readDistance(in, f, rd, bp, length, s) ==
  IF f.fixed
  THEN IF Need(rd, bp, 5) > Len(in) THEN Failed(f, ErrUnexpectedEOF, Len(in))
       ELSE copyDistance(in, f, Need(rd, bp, 5), bp + 5, length,
                         Reverse5(Bits(in, Need(rd, bp, 5), bp, 5)))
  ELSE IF s.err # Nil THEN Failed(f, s.err, s.rd)
  ELSE copyDistance(in, f, s.rd, s.bp, length, s.sym)

\* the extra bits of the length m of a match, then its distance
readLength(in, f, rd, bp, m) ==
  IF Need(rd, bp, m.n) > Len(in) THEN Failed(f, ErrUnexpectedEOF, Len(in))
  ELSE readDistance(in, f, Need(rd, bp, m.n), bp + m.n,
                    m.length + Bits(in, Need(rd, bp, m.n), bp, m.n),
                    IF f.fixed THEN [err |-> Nil, sym |-> 0, rd |-> rd, bp |-> bp]
                    ELSE huffSym(in, Need(rd, bp, m.n), bp + m.n, f.hd, f.hd.min))

\* one turn of huffmanBlock: s is the symbol of f.hl huffSym gave
huffmanBlock(in, f, s) ==
  IF s.err # Nil THEN Failed(f, s.err, s.rd)
  ELSE IF s.sym < 256 THEN [f EXCEPT !.rd = s.rd, !.bp = s.bp, !.out = Append(@, s.sym)]
  ELSE IF s.sym = 256 THEN finishBlock([f EXCEPT !.rd = s.rd, !.bp = s.bp])
  ELSE IF s.sym >= 286 THEN Failed(f, CorruptInputError(s.rd), s.rd)
  ELSE readLength(in, f, s.rd, s.bp, MatchLength(s.sym))

\* f.step(f)
Step(in, f) ==
  CASE f.step = "head" -> nextBlock(in, f)
    [] f.step = "lens" /\ Len(f.bits) = f.nlit + f.ndist ->
       initDecoders(f, HuffmanInit(Slice(f.bits, 0, f.nlit)),
                    HuffmanInit(Slice(f.bits, f.nlit, f.nlit + f.ndist)))
    [] f.step = "lens" /\ Len(f.bits) # f.nlit + f.ndist ->
       codeLength(in, f, huffSym(in, f.rd, f.bp, f.hl, f.hl.min))
    [] f.step = "huff" -> huffmanBlock(in, f, huffSym(in, f.rd, f.bp, f.hl, f.hl.min))

\* the loop of Read over at most n steps, until f.err is set
RECURSIVE Steps(_, _, _)
Steps(in, f, n) ==
  IF f.err # Nil \/ f.done THEN f
  ELSE IF n <= 1 THEN Step(in, f)
  ELSE Steps(in, Steps(in, f, n \div 2), n - n \div 2)

\* io.ReadAll over flate's reader on in: every step takes a bit at least
\* or ends a code, so that 16 steps a byte let it reach its end
Inflate(in) == Steps(in, NewDecompressor, 16 * Len(in) + 16)

\* the bit of mask (a power of two) in the flag byte flg
Flag(flg, mask) == (flg \div mask) % 2 = 1

\* readHeader, the extra field when flg has FEXTRA: s holds the error so
\* far and the position q reached
readExtra(in, s, flg) ==
  IF s.err # Nil \/ ~Flag(flg, 4) THEN s
  ELSE IF s.q + 2 > Len(in) THEN [err |-> ErrUnexpectedEOF, q |-> s.q]
  ELSE IF s.q + 2 + in[s.q + 1] + 256 * in[s.q + 2] > Len(in)
  THEN [err |-> ErrUnexpectedEOF, q |-> s.q]
  ELSE [err |-> Nil, q |-> s.q + 2 + in[s.q + 1] + 256 * in[s.q + 2]]

\* readString from position q, zeros being the places of the zero bytes
\* after q: the string and its zero fit the 512 bytes of z.buf
readString(in, q, zeros) ==
  IF \E i \in zeros : i <= q + 512
  THEN [err |-> Nil, q |-> CHOOSE i \in zeros : \A j \in zeros : i <= j]
  ELSE IF Len(in) >= q + 512 THEN [err |-> ErrHeader, q |-> q]
  ELSE [err |-> ErrUnexpectedEOF, q |-> q]

\* readHeader, the name (mask 8) or the comment (mask 16) when flg has it
readField(in, s, flg, mask) ==
  IF s.err # Nil \/ ~Flag(flg, mask) THEN s
  ELSE readString(in, s.q, {i \in (s.q + 1)..Len(in) : in[i] = 0})

\* readHeader, the checksum of the header bytes p..s.q when flg has FHCRC
readHeaderCrc(in, p, s, flg) ==
  IF s.err # Nil \/ ~Flag(flg, 2) THEN s
  ELSE IF s.q + 2 > Len(in) THEN [err |-> ErrUnexpectedEOF, q |-> s.q]
  ELSE IF in[s.q + 1] + 256 * in[s.q + 2] # CRC32(Slice(in, p, s.q)).lo
  THEN [err |-> ErrHeader, q |-> s.q]
  ELSE [err |-> Nil, q |-> s.q + 2]

\* gzip's readHeader on the member at position p, of which 10 bytes are
\* there: the error and the position q of the deflate data
readHeader(in, p) ==
  IF in[p + 1] # 31 \/ in[p + 2] # 139 \/ in[p + 3] # 8 THEN [err |-> ErrHeader, q |-> p]
  ELSE readHeaderCrc(in, p,
         readField(in, readField(in, readExtra(in, [err |-> Nil, q |-> p + 10], in[p + 4]),
                                 in[p + 4], 8),
                   in[p + 4], 16),
         in[p + 4])

\* the trailer of a member after the deflate data f decoded, which began
\* at position q: the checksum and the size of what was decoded
readTrailer(in, q, f) ==
  IF ~f.done THEN f.err
  ELSE IF q + f.rd + 8 > Len(in) THEN ErrUnexpectedEOF
  ELSE IF \/ U32FromLE(Slice(in, q + f.rd, q + f.rd + 4)) # CRC32(f.out)
          \/ U32FromLE(Slice(in, q + f.rd + 4, q + f.rd + 8))
               # U32(Len(f.out) \div 65536, Len(f.out) % 65536)
  THEN ErrChecksum
  ELSE Nil

\* gzip.Reader over in from position p, multistream: the members one after
\* the other; first tells the first member, whose missing header is io.EOF
RECURSIVE GzipMembers(_, _, _, _)

\* Read at the end of a member: the error e of its data or trailer, else
\* the next member
nextMember(in, out, q, f, e) ==
  IF e # Nil THEN [data |-> out \o f.out, err |-> e]
  ELSE GzipMembers(in, q + f.rd + 8, out \o f.out, FALSE)

\* Read over the data of the member whose header h was read
readMember(in, out, h, f) ==
  IF h.err # Nil THEN [data |-> out, err |-> h.err]
  ELSE nextMember(in, out, h.q, f, readTrailer(in, h.q, f))

GzipMembers(in, p, out, first) ==
  IF p >= Len(in) THEN [data |-> out, err |-> IF first THEN EOF ELSE Nil]
  ELSE IF p + 10 > Len(in) THEN [data |-> out, err |-> ErrUnexpectedEOF]
  ELSE readMember(in, out, readHeader(in, p),
                  Inflate(Slice(in, readHeader(in, p).q, Len(in))))

\* decompressGunzip: gzip.NewReader, then io.ReadAll
decompressGunzip(in) == GzipMembers(in, 0, <<>>, TRUE)

\* ------------------------------------------------------------------ Write
\* the panic of a slice expression whose bound exceeds the capacity
PanicSliceBounds == [msg |-> "panic: runtime error: slice bounds out of range", wraps |-> {"panic"}]

\* the loop over []Datum{ARM} alone
KnownTypeArmOnly(val) ==
  LET e1 == verify(val, ARM)
  IN IF e1 = Nil THEN Nil
     ELSE IF ~IsInvalidContent(e1) THEN e1
     ELSE ErrorNew("unknown payload type: " \o SprintfV(val))

\* the loop over []Datum{ARM, RISC}: nil when one of them verifies
KnownType(val) ==
  LET e1 == verify(val, ARM)
      e2 == verify(val, RISC)
  IN IF e1 = Nil THEN Nil
     ELSE IF ~IsInvalidContent(e1) THEN e1
     ELSE IF e2 = Nil THEN Nil
     ELSE IF ~IsInvalidContent(e2) THEN e2
     ELSE ErrorNew("unknown payload type: " \o SprintfV(val))

\* sub[ARM64MagicOffset : ARM64MagicOffset+4] of a slice of capacity cap:
\* the bytes past len(sub) are those of the zeroed buffer of io.ReadAll
MagicSlice(sub) ==
  [i \in 1..4 |-> IF ARM64MagicOffset + i <= Len(sub) THEN sub[ARM64MagicOffset + i] ELSE 0]

\* found compared on the four bytes of "gzip" only, the padding left out
foundByPrefix(tag) == Slice(tag, 0, 4) = Slice(Data(Gzip), 0, 4)

\* t == fmt.Sprintf("%v", v.bodyType) for the one decompressor registered:
\* the printed 32 bytes of the field against the printed Gzip.Data()
found(tag) == SprintfV(tag) = SprintfV(Data(Gzip))

\* d, err := v.fxn(sub): the error as it is, else sub = d
Decompressed(d) ==
  IF d.err # Nil THEN [err |-> d.err, sub |-> <<>>]
  ELSE [err |-> Nil, sub |-> d.data]

\* the lookup that goes on with what was decompressed when fxn fails
LookupIgnoringError(info) ==
  IF found(info.Header.CompressionType)
  THEN [err |-> Nil, sub |-> decompressGunzip(info.body).data]
  ELSE [err |-> ErrorNew("unknown compression type: " \o SprintfV(info.Header.CompressionType)),
        sub |-> <<>>]

\* the loop over the decompressors and the check of found: the error of
\* v.fxn as it is, else sub = d, else the unknown compression type
Lookup(info) ==
  IF found(info.Header.CompressionType)
  THEN Decompressed(decompressGunzip(info.body))
  ELSE [err |-> ErrorNew("unknown compression type: " \o SprintfV(info.Header.CompressionType)),
        sub |-> <<>>]

\* cap(sub) of what io.ReadAll returned: exact tells whether the slice has
\* minimal capacity (cap = len) or spare capacity (cap >= ReadAllCap); the
\* Go release decides
Cap(sub, exact) == IF exact \/ Len(sub) > ReadAllCap THEN Len(sub) ELSE ReadAllCap

\* the check of the architecture without the check of subSize
SniffAnyLength(sub, exact) ==
  IF ARM64MagicOffset + 4 > Cap(sub, exact)
  THEN [err |-> PanicSliceBounds, sub |-> <<>>,
        span |-> <<ARM64MagicOffset, ARM64MagicOffset + 4>>]
  ELSE [err |-> KnownType(MagicSlice(sub)), sub |-> sub,
        span |-> <<ARM64MagicOffset, ARM64MagicOffset + 4>>]

\* the check of subSize, val and the check of the architecture: the error,
\* sub, and span, the half-open range of sub the slice expression of val
\* asked for
Sniff(sub, exact) ==
  IF Len(sub) < ARM64MagicOffset
  THEN [err |-> ErrorNew("invalid response payload: " \o ToString(Len(sub))), sub |-> <<>>,
        span |-> <<>>]
  ELSE IF ARM64MagicOffset + 4 > Cap(sub, exact)
  THEN [err |-> PanicSliceBounds, sub |-> <<>>,
        span |-> <<ARM64MagicOffset, ARM64MagicOffset + 4>>]
  ELSE [err |-> KnownType(MagicSlice(sub)), sub |-> sub,
        span |-> <<ARM64MagicOffset, ARM64MagicOffset + 4>>]

\* the check of the architecture on what the lookup l gave, unless it failed
Checked(l, exact) ==
  IF l.err # Nil THEN [err |-> l.err, sub |-> <<>>, span |-> <<>>]
  ELSE Sniff(l.sub, exact)

\* the branch that checks what was decompressed and keeps sub = info.body
DecompressAndCheckKeepBody(info, exact) ==
  [Checked(Lookup(info), exact) EXCEPT !.sub = info.body]

\* the branch of Write under Decompress: the lookup with the decompression,
\* then the check of the architecture on what was decompressed
DecompressAndCheck(info, exact) == Checked(Lookup(info), exact)

\* Payload that decompresses and checks whether or not Decompress is set
PayloadAlwaysDecompress(info, exact) == DecompressAndCheck(info, exact)

\* the bytes Write hands to the sink, or the error of a stage before it
Payload(info, exact) ==
  IF info.unpacker.Decompress THEN DecompressAndCheck(info, exact)
  ELSE [err |-> Nil, sub |-> info.body, span |-> <<>>]

\* w.Write(p) of a sink that, when limited, takes at most room bytes:
\* n < len(p) comes with an error
SinkWrite(p, sink) ==
  IF sink.limited /\ Len(p) > sink.room
  THEN [n |-> Min(Len(p), sink.room), err |-> ErrorNew("short write")]
  ELSE [n |-> Len(p), err |-> Nil]

\* w.Write(sub) and return err, unless a stage before it returned
Deliver(st, w) ==
  IF st.err # Nil THEN [err |-> st.err, calls |-> <<>>, taken |-> <<>>, span |-> st.span]
  ELSE [err |-> w.err, calls |-> <<st.sub>>, taken |-> Slice(st.sub, 0, w.n), span |-> st.span]

\* the stages of st on the way to the sink
Stages(st, sink) == Deliver(st, SinkWrite(st.sub, sink))

\* Write that hands the body to the sink before the stages and the
\* payload after them
WriteBodyEarly(info, exact, sink) ==
  LET st == Payload(info, exact)
      w0 == SinkWrite(info.body, sink)
      w == SinkWrite(st.sub, sink)
  IN IF st.err # Nil
     THEN [err |-> st.err, calls |-> <<info.body>>, taken |-> Slice(info.body, 0, w0.n),
           span |-> st.span]
     ELSE [err |-> w.err, calls |-> <<info.body, st.sub>>,
           taken |-> Slice(info.body, 0, w0.n) \o Slice(st.sub, 0, w.n), span |-> st.span]

\* Write past the check of the body: the stages, then the one call of w.Write
WriteBody(info, exact, sink) == Stages(Payload(info, exact), sink)

\* Write without the check of the body
WriteUnguarded(info, exact, sink) == WriteBody(info, exact, sink)

\* BootInfo.Write: the error, the calls made to w.Write, the bytes the sink
\* took and the range the slice expression of val asked for
Write(info, exact, sink) ==
  IF Len(info.body) = 0
  THEN [err |-> ErrorNew("no body"), calls |-> <<>>, taken |-> <<>>, span |-> <<>>]
  ELSE WriteBody(info, exact, sink)

\* ----------------------------------------------------------------- inputs
LE16(n) == <<n % 256, n \div 256>>

LE32(n) == <<n % 256, (n \div 256) % 256, (n \div 65536) % 256, n \div 16777216>>

LEU32(a) == LE16(a.lo) \o LE16(a.hi)

\* the 64 bytes of a header (the layout of the tests' vector)
MkHeader(dos, zimg, off, size, tag, linux) ==
  dos \o <<0, 0>> \o zimg \o off \o size \o Zeros(8) \o tag \o linux \o <<64, 0, 0, 0>>

GoodMagic == [dos |-> <<77, 90>>, zimg |-> <<122, 105, 109, 103>>, linux |-> <<205, 35, 130, 129>>]

\* each of the three magic fields right or corrupted
Magics ==
  {[dos |-> d, zimg |-> z, linux |-> l] :
     d \in {<<77, 90>>, <<1, 90>>},
     z \in {<<122, 105, 109, 103>>, <<122, 105, 109, 0>>},
     l \in {<<205, 35, 130, 129>>, <<205, 35, 13, 129>>}}

GzipTag == <<103, 122, 105, 112>> \o Zeros(28)

\* the gzip tag, the unset tag, and "gzip" with a nonzero padding byte
Tags == {GzipTag, Zeros(32), <<103, 122, 105, 112>> \o Zeros(27) \o <<1>>}

Junk(n) == [i \in 1..n |-> 200 + i]

Filler(n) == [i \in 1..n |-> 32 + (i % 64)]

\* the tests' gzipData(s...): what gzip.NewWriter gives for the strings of
\* each call the tests make (the header, one fixed Huffman block, the empty
\* stored block of Close, CRC-32 and ISIZE)
gzipData(s) ==
  CASE s = <<>> ->
         <<31, 139, 8, 0, 0, 0, 0, 0, 0, 255, 42, 201, 200, 44, 86, 200, 44, 86, 72, 84,
         40, 73, 45, 46, 81, 40, 46, 41, 202, 204, 75, 7, 4, 0, 0, 255, 255, 181, 214,
         134, 252, 21, 0, 0, 0>>
    [] s = <<"ARMt1oij12j01j201 aifj109J0(#J",
           "a98hj98JP( *H#(*HQ(!",
           "OIJEOSJOSJ:OJI:Q">> ->
         <<31, 139, 8, 0, 0, 0, 0, 0, 0, 255, 114, 12, 242, 45, 49, 204, 207, 204, 50, 52,
         202, 50, 48, 204, 50, 50, 48, 84, 72, 204, 76, 203, 50, 52, 176, 244, 50, 208,
         80, 246, 74, 180, 180, 200, 200, 178, 180, 240, 10, 208, 80, 208, 242, 80, 214,
         208, 242, 8, 212, 80, 244, 247, 244, 114, 245, 15, 246, 242, 15, 246, 178, 242,
         247, 242, 180, 10, 4, 4, 0, 0, 255, 255, 238, 191, 124, 73, 66, 0, 0, 0>>
    [] s = <<"ARMdARMdARMdARMdARMdARMdARMdARMdARMdARMdARMdARMdARMdARMdARMdARMdARMdARMdARMdARMdARMdARMdARMdARMdARMdARMdARMdARMdARMdARMdARMdARMdARMdARMdARMdARMdARMdARMdARMdARMdARMdARMdARMdARMdARMdARMdARMdARMdARMdARMdARMdARMdARMdARMdARMdARMdARMdARMdARMdARMd",
           "1oi2j198j()*J(D*J#!J!)(!J )(J@! J@!)(J)!(@J){(D{J )(C*J{ )*(J{@">> ->
         <<31, 139, 8, 0, 0, 0, 0, 0, 0, 255, 114, 12, 242, 77, 25, 73, 216, 48, 63, 211,
         40, 203, 208, 210, 34, 75, 67, 83, 203, 75, 195, 69, 203, 75, 89, 209, 75, 81,
         83, 67, 209, 75, 65, 83, 195, 203, 65, 81, 193, 203, 65, 81, 83, 195, 75, 83,
         81, 195, 193, 75, 179, 90, 195, 165, 26, 36, 238, 172, 229, 85, 173, 160, 169,
         165, 225, 85, 237, 0, 8, 0, 0, 255, 255, 79, 203, 27, 79, 47, 1, 0, 0>>

\* a gzip member holding content in one final stored block, no header flags
GzipMember(content) ==
  <<31, 139, 8, 0, 0, 0, 0, 0, 0, 255>>
    \o <<1>> \o LE16(Len(content)) \o LE16(65535 - Len(content)) \o content
    \o LEU32(CRC32(content)) \o LE32(Len(content))

\* the same member with FNAME set and the name "a" in the header
NamedMember(content) ==
  <<31, 139, 8, 8, 0, 0, 0, 0, 0, 3, 97, 0>>
    \o <<1>> \o LE16(Len(content)) \o LE16(65535 - Len(content)) \o content
    \o LEU32(CRC32(content)) \o LE32(Len(content))

ArmImage == Filler(ARM64MagicOffset) \o <<65, 82, 77, 100>>

\* a gzip member whose one block is a dynamic Huffman block: 68 bytes over
\* the letters a to e with ARMd at ARM64MagicOffset
DynamicMember ==
  <<31, 139, 8, 0, 0, 0, 0, 0, 2, 3, 37, 74, 71, 13, 0, 48, 16, 210, 86, 1, 253,
  212, 1, 203, 191, 133, 222, 32, 1, 194, 0, 12, 9, 13, 174, 48, 32, 187, 42,
  102, 10, 107, 70, 111, 44, 47, 156, 119, 173, 244, 53, 248, 39, 42, 171, 205,
  68, 0, 0, 0>>

\* the three payloads of TestWriteDecompressCheck
TestPayloads ==
  {gzipData(<<>>),
   gzipData(<<"ARMt1oij12j01j201 aifj109J0(#J",
              "a98hj98JP( *H#(*HQ(!",
              "OIJEOSJOSJ:OJI:Q">>),
   gzipData(<<"ARMdARMdARMdARMdARMdARMdARMdARMdARMdARMdARMdARMdARMdARMdARMdARMdARMdARMdARMdARMdARMdARMdARMdARMdARMdARMdARMdARMdARMdARMdARMdARMdARMdARMdARMdARMdARMdARMdARMdARMdARMdARMdARMdARMdARMdARMdARMdARMdARMdARMdARMdARMdARMdARMdARMdARMdARMdARMdARMdARMd",
              "1oi2j198j()*J(D*J#!J!)(!J )(J@! J@!)(J)!(@J){(D{J )(C*J{ )*(J{@">>)}

\* the payloads of the tests, then members built for the lengths around
\* ARM64MagicOffset, the magics, the header flags and the errors of gzip
GzipPayloads ==
  TestPayloads \cup
  {DynamicMember,
   NamedMember(ArmImage),
   GzipMember(ArmImage),
   GzipMember(ArmImage \o <<7, 7>>),
   GzipMember(Filler(ARM64MagicOffset) \o <<82, 83, 67, 5>>),
   GzipMember(Filler(ARM64MagicOffset) \o <<74, 79, 83, 74>>),
   GzipMember(Filler(21)),
   GzipMember(Filler(ARM64MagicOffset - 1)),
   GzipMember(ArmImage) \o <<0>>,
   Slice(GzipMember(ArmImage), 0, 40),
   <<31, 139, 9>> \o Filler(20),
   [GzipMember(ArmImage) EXCEPT ![20] = 0]}
    \cup {GzipMember(Slice(ArmImage, 0, ARM64MagicOffset + k)) : k \in 0..3}

Slacks == {Zeros(n) : n \in {0} \cup ((HeaderSize - 1)..(HeaderSize + MaxExtraSlack))}

\* the offsets tried for a payload that starts right after the header
Offsets == {LE32(0), LE32(1), LE32(HeaderSize), LE32(HeaderSize + 1), <<255, 255, 255, 255>>}

\* the sizes tried for payload pl
Sizes(pl) == {LE32(0), LE32(1), LE32(Len(pl)), LE32(Len(pl) + 1), <<255, 255, 255, 255>>}

\* header, payload and slack
MkBuffer(m, off, size, tag, pl, sl) ==
  MkHeader(m.dos, m.zimg, off, size, tag, m.linux) \o pl \o sl

\* buffers with a full header: every magic combination over the longest junk
\* payload, every tag and slack over the junk payloads under valid magic,
\* and every tag over the gzip payloads followed by HeaderSize bytes
FullBuffers ==
  {MkBuffer(m, off, size, GzipTag, Junk(MaxJunk), sl) :
     m \in Magics, off \in Offsets, size \in Sizes(Junk(MaxJunk)), sl \in Slacks}
  \cup UNION {
    {MkBuffer(GoodMagic, off, size, tag, Junk(n), sl) :
       off \in Offsets, size \in Sizes(Junk(n)), tag \in Tags, sl \in Slacks} : n \in 0..MaxJunk}
  \cup UNION {
    {MkBuffer(GoodMagic, off, size, tag, pl, Zeros(HeaderSize)) :
       off \in Offsets, size \in Sizes(pl), tag \in Tags} : pl \in GzipPayloads}

\* buffers cut short of the header
ShortBuffers ==
  {Slice(MkHeader(GoodMagic.dos, GoodMagic.zimg, LE32(HeaderSize), LE32(1), GzipTag, GoodMagic.linux), 0, n) :
     n \in {0, 1, 2, HeaderSize - 1}}

Buffers == FullBuffers \cup ShortBuffers

Sinks == {[limited |-> FALSE, room |-> 0]} \cup {[limited |-> TRUE, room |-> n] : n \in 0..MaxRoom}

\* the buffers of the runs that also call Data(): the ARM image under every
\* tag and the payloads of the tests under the gzip tag, right after the
\* header, and the buffers cut short
DataBuffers ==
  {MkBuffer(GoodMagic, LE32(HeaderSize), LE32(Len(GzipMember(ArmImage))), tag,
            GzipMember(ArmImage), Zeros(HeaderSize)) : tag \in Tags}
  \cup {MkBuffer(GoodMagic, LE32(HeaderSize), LE32(Len(pl)), GzipTag, pl, Zeros(HeaderSize)) :
          pl \in TestPayloads}
  \cup ShortBuffers

\* the package's Datum variables by name
Registry ==
  [LinuxMagic |-> LinuxMagic, ARM |-> ARM, RISC |-> RISC, Gzip |-> Gzip,
   MSDOSMagic |-> MSDOSMagic, ZImg |-> ZImg]

\* ------------------------------------------------------------ state machine
VARIABLES
  reader,    \* the *bytes.Reader handed to ReadInfo
  unpacker,  \* the Unpacker ReadInfo was called on
  info,      \* the BootInfo ReadInfo returned (BootInfo{} before)
  err,       \* the error ReadInfo returned
  calls,     \* the arguments of the calls of w.Write, in order
  taken,     \* the bytes the sink took
  werr,      \* the error Write returned
  span,      \* the range of sub the slice expression of val asked for
  got,       \* the last call of Data(): the datum and the bytes returned
  pc         \* "start", "read" (ReadInfo returned), "written" (Write returned)

vars == <<reader, unpacker, info, err, calls, taken, werr, span, got, pc>>

Init ==
  /\ reader \in {NewReader(b) : b \in Buffers} \cup {NilReader}
  /\ unpacker = Unpacker(FALSE, FALSE)
  /\ info = ZeroBootInfo
  /\ err = Nil
  /\ calls = <<>>
  /\ taken = <<>>
  /\ werr = Nil
  /\ span = <<>>
  /\ got = [datum |-> "", data |-> <<>>]
  /\ pc = "start"

\* info, err := u.ReadInfo(r)
DoReadInfo ==
  /\ pc = "start"
  /\ \E d \in BOOLEAN, p \in BOOLEAN :
       LET res == ReadInfo(Unpacker(d, p), reader)
       IN /\ unpacker' = Unpacker(d, p)
          /\ info' = res.info
          /\ err' = res.err
          /\ reader' = res.r
  /\ pc' = "read"
  /\ UNCHANGED <<calls, taken, werr, span, got>>

\* werr = info.Write(w) on the BootInfo ReadInfo returned: BootInfo{} after a
\* failed ReadInfo
DoWrite ==
  /\ pc = "read"
  /\ \E exact \in BOOLEAN, sink \in Sinks :
       LET res == Write(info, exact, sink)
       IN /\ werr' = res.err
          /\ calls' = calls \o res.calls
          /\ taken' = taken \o res.taken
          /\ span' = res.span
  /\ pc' = "written"
  /\ UNCHANGED <<reader, unpacker, info, err, got>>

\* one of the package's Datum variables answers Data(), before, between or
\* after the two calls above
DoData ==
  /\ \E n \in DOMAIN Registry : got' = [datum |-> n, data |-> Data(Registry[n])]
  /\ UNCHANGED <<reader, unpacker, info, err, calls, taken, werr, span, pc>>

Next == DoReadInfo \/ DoWrite

Spec == Init /\ [][Next]_vars

\* the runs in which Data() is called as well, over DataBuffers
InitData ==
  /\ reader \in {NewReader(b) : b \in DataBuffers}
  /\ unpacker = Unpacker(FALSE, FALSE)
  /\ info = ZeroBootInfo
  /\ err = Nil
  /\ calls = <<>>
  /\ taken = <<>>
  /\ werr = Nil
  /\ span = <<>>
  /\ got = [datum |-> "", data |-> <<>>]
  /\ pc = "start"

NextData == DoReadInfo \/ DoWrite \/ DoData

SpecData == InitData /\ [][NextData]_vars

\* ----------------------------------------------------------------- claims
\* The buffer handed to ReadInfo, and its header fields read off the bytes.
Buf == reader.s

ReadDone == pc # "start" /\ ~reader.isNil

FullHeader == Len(Buf) >= HeaderSize

RawDos == Slice(Buf, 0, 2)
RawZImg == Slice(Buf, 4, 8)
RawLinux == Slice(Buf, 56, 60)
RawOffset == U32(Buf[11] + 256 * Buf[12], Buf[9] + 256 * Buf[10])
RawSize == U32(Buf[15] + 256 * Buf[16], Buf[13] + 256 * Buf[14])
RawTag == Slice(Buf, 24, 56)

MagicOk ==
  /\ RawDos = <<77, 90>>
  /\ RawZImg = <<122, 105, 109, 103>>
  /\ RawLinux = <<205, 35, 130, 129>>

\* PayloadOffset + PayloadSize > n, the sum taken without wraparound
SumExceeds(n) ==
  LET l == RawOffset.lo + RawSize.lo
      h == RawOffset.hi + RawSize.hi + (l \div 65536)
  IN h > n \div 65536 \/ (h = n \div 65536 /\ l % 65536 > n % 65536)

ErrZero == [msg |-> "payload size/offset is zero", wraps |-> {}]
ErrBeyond == [msg |-> "invalid offset/payload, beyond size", wraps |-> {}]

\* C1: when ReadInfo succeeds with ParseBody set, Body has exactly
\* PayloadSize bytes and Body[i] is the byte PayloadOffset + i of the buffer,
\* counted from the start of the buffer.
C1_BodyIsPayloadRange ==
  (ReadDone /\ err = Nil /\ unpacker.ParseBody) =>
    /\ RawOffset.hi < 32768 /\ RawSize.hi < 32768
    /\ Len(info.body) = RawSize.hi * 65536 + RawSize.lo
    /\ \A i \in 0..(Len(info.body) - 1) :
         /\ RawOffset.hi * 65536 + RawOffset.lo + i < Len(Buf)
         /\ info.body[i + 1] = Buf[RawOffset.hi * 65536 + RawOffset.lo + i + 1]

C1_Witness ==
  /\ pc = "read" /\ err = Nil /\ unpacker.ParseBody
  /\ RawOffset = U32(0, HeaderSize)
  /\ Len(info.body) >= 2
  /\ info.body[1] # info.body[2]

\* C2 (as claimed): ReadInfo accepts every buffer with valid magic fields,
\* nonzero PayloadOffset and PayloadSize and PayloadOffset + PayloadSize at
\* most the length of the whole buffer, header included.
C2_AcceptsUpToBufferLength ==
  (ReadDone /\ FullHeader /\ MagicOk /\ ~U32IsZero(RawOffset) /\ ~U32IsZero(RawSize)
     /\ ~SumExceeds(Len(Buf)))
    => err = Nil

\* C3 (as claimed): whenever PayloadOffset + PayloadSize, summed without
\* wraparound, exceeds the length of the buffer, ReadInfo on an otherwise
\* valid buffer fails with the beyond-size error, with or without ParseBody.
C3_SumBeyondBufferRejected ==
  (ReadDone /\ FullHeader /\ MagicOk /\ ~U32IsZero(RawOffset) /\ ~U32IsZero(RawSize)
     /\ SumExceeds(Len(Buf)))
    => err = ErrBeyond

\* C4: on a buffer shorter than the header ReadInfo returns a truncated-input
\* error (io.EOF for the empty buffer, io.ErrUnexpectedEOF otherwise) and
\* BootInfo{}, and the read position stays inside the buffer.
C4_ShortBufferTruncated ==
  (ReadDone /\ ~FullHeader) =>
    /\ err = IF Len(Buf) = 0 THEN [msg |-> "EOF", wraps |-> {}]
             ELSE [msg |-> "unexpected EOF", wraps |-> {}]
    /\ info = ZeroBootInfo
    /\ reader.i <= Len(Buf)

C4_Witness ==
  /\ pc = "read" /\ ~reader.isNil
  /\ Len(Buf) = HeaderSize - 1
  /\ err.msg = "unexpected EOF"

\* the corrupted field values of the inputs as fmt prints them
Shown(f) ==
  CASE f = <<1, 90>> -> "[1 90]"
    [] f = <<122, 105, 109, 0>> -> "[122 105 109 0]"
    [] f = <<205, 35, 13, 129>> -> "[205 35 13 129]"

\* the message for the first mismatching field in the order DOS, Linux, zimg
FirstMismatch ==
  IF RawDos # <<77, 90>> THEN "MZ invalid data: " \o Shown(RawDos) \o " != [77 90]"
  ELSE IF RawLinux # <<205, 35, 130, 129>>
  THEN "Linux invalid data: " \o Shown(RawLinux) \o " != [205 35 130 129]"
  ELSE "zimg invalid data: " \o Shown(RawZImg) \o " != [122 105 109 103]"

\* C5: when magic fields of a full header are wrong, ReadInfo fails with an
\* error that is ErrIsInvalidContent and names the first wrong field in the
\* order DOS, Linux, zimg, with the bytes observed and the bytes expected.
C5_FirstMismatchNamed ==
  (ReadDone /\ FullHeader /\ ~MagicOk) =>
    err = [msg |-> "invalid content data\n" \o FirstMismatch, wraps |-> {"ErrIsInvalidContent"}]

C5_Witness ==
  /\ pc = "read" /\ FullHeader
  /\ RawDos = <<77, 90>> /\ RawLinux # <<205, 35, 130, 129>> /\ RawZImg # <<122, 105, 109, 103>>
  /\ err.msg = "invalid content data\nLinux invalid data: [205 35 13 129] != [205 35 130 129]"

\* C6: with a wrong magic field ReadInfo returns the content-mismatch error
\* whatever PayloadOffset and PayloadSize are, never one of the two errors
\* of the payload bounds.
C6_MagicBeforeBounds ==
  (ReadDone /\ FullHeader /\ ~MagicOk) =>
    /\ IsInvalidContent(err)
    /\ err.msg \notin {ErrZero.msg, ErrBeyond.msg}

C6_Witness ==
  /\ pc = "read" /\ FullHeader /\ ~MagicOk
  /\ U32IsZero(RawOffset) /\ RawSize = U32(65535, 65535)
  /\ IsInvalidContent(err)

\* C7: with valid magic fields ReadInfo fails with "payload size/offset is
\* zero" whenever PayloadOffset or PayloadSize is zero, whatever the other
\* is, also when the sum is beyond the buffer.
C7_ZeroOffsetOrSize ==
  (ReadDone /\ FullHeader /\ MagicOk /\ (U32IsZero(RawOffset) \/ U32IsZero(RawSize)))
    => err = ErrZero

C7_Witness ==
  /\ pc = "read" /\ FullHeader /\ MagicOk
  /\ U32IsZero(RawOffset) /\ RawSize = U32(65535, 65535)
  /\ err = ErrZero

\* what ReadInfo gives on the same buffer with ParseBody the other way
OtherMode ==
  ReadInfo(Unpacker(unpacker.Decompress, ~unpacker.ParseBody),
           IF reader.isNil THEN NilReader ELSE NewReader(Buf))

Parsed == IF unpacker.ParseBody THEN [info |-> info, err |-> err] ELSE OtherMode
Unparsed == IF unpacker.ParseBody THEN OtherMode ELSE [info |-> info, err |-> err]

\* C8: the body of a successful ReadInfo is empty without ParseBody and
\* non-empty with it; both modes run the same header checks: an error
\* without ParseBody is the error with it, a success with ParseBody is a
\* success without it on the same header, and where only the mode with
\* ParseBody fails the error comes from the read of the body.
C8_BodyOnlyWhenRequested ==
  (pc # "start") =>
    /\ (err = Nil /\ ~unpacker.ParseBody) => Len(info.body) = 0
    /\ (err = Nil /\ unpacker.ParseBody) => Len(info.body) > 0
    /\ Unparsed.err # Nil => Parsed.err = Unparsed.err
    /\ Parsed.err = Nil => (Unparsed.err = Nil /\ Unparsed.info.Header = Parsed.info.Header)
    /\ (Unparsed.err = Nil /\ Parsed.err # Nil) =>
         Parsed.err.msg \in {"EOF", "invalid seek, zero"}

C8_Witness ==
  /\ pc = "read" /\ err = Nil /\ ~unpacker.ParseBody
  /\ Len(info.body) = 0
  /\ OtherMode.err = Nil /\ Len(OtherMode.info.body) > 0

\* C9: Write on a BootInfo with an empty body fails with "no body", whether
\* or not Decompress is set, and the sink is not written.
C9_EmptyBodyRefused ==
  (pc = "written" /\ Len(info.body) = 0) =>
    /\ werr = [msg |-> "no body", wraps |-> {}]
    /\ calls = <<>>
    /\ taken = <<>>

C9_Witness ==
  /\ pc = "written" /\ err = Nil
  /\ info.unpacker.Decompress /\ ~info.unpacker.ParseBody
  /\ Len(info.body) = 0
  /\ werr.msg = "no body"

\* C10: without Decompress and with a non-empty body, Write calls the sink
\* once with exactly the bytes of Body and returns what the sink returns:
\* nil when the sink took them all, whatever the compression type and
\* whatever the body holds at offset 56.
C10_RawBodyWritten ==
  (pc = "written" /\ ~info.unpacker.Decompress /\ Len(info.body) > 0) =>
    /\ calls = <<info.body>>
    /\ werr \in {Nil, [msg |-> "short write", wraps |-> {}]}
    /\ werr = Nil <=> taken = info.body

C10_Witness ==
  /\ pc = "written" /\ ~info.unpacker.Decompress
  /\ Len(info.body) > ARM64MagicOffset + 4
  /\ info.Header.CompressionType = Zeros(32)
  /\ werr = Nil
  /\ taken = info.body

\* Write ran with Decompress set on a non-empty body
Decompressing == pc = "written" /\ info.unpacker.Decompress /\ Len(info.body) > 0

\* what gzip decoding gives on the body
Decoded == decompressGunzip(info.body)

\* the tags of the inputs other than the gzip tag as fmt prints them
ShownTag ==
  CASE RawTag = Zeros(32) -> "[0 0 0 0 0 0 0 0 0 0 0 0 0 0 0 0 0 0 0 0 0 0 0 0 0 0 0 0 0 0 0 0]"
    [] RawTag = <<103, 122, 105, 112>> \o Zeros(27) \o <<1>> -> "[103 122 105 112 0 0 0 0 0 0 0 0 0 0 0 0 0 0 0 0 0 0 0 0 0 0 0 0 0 0 0 1]"

ErrShortWrite == [msg |-> "short write", wraps |-> {}]

\* C11: with Decompress set, a compression type that differs from the 32
\* bytes of the gzip tag anywhere, padding included, makes Write fail with
\* "unknown compression type: " and the printed bytes of the field, without
\* decompressing or checking anything; the gzip tag never gives that error.
C11_UnknownCompressionType ==
  /\ (Decompressing /\ RawTag # GzipTag) =>
       /\ werr = [msg |-> "unknown compression type: " \o ShownTag, wraps |-> {}]
       /\ calls = <<>>
       /\ span = <<>>
  /\ (Decompressing /\ RawTag = GzipTag) =>
       werr.msg # "unknown compression type: [103 122 105 112 0 0 0 0 0 0 0 0 0 0 0 0 0 0 0 0 0 0 0 0 0 0 0 0 0 0 0 0]"

C11_Witness ==
  /\ Decompressing
  /\ RawTag = <<103, 122, 105, 112>> \o Zeros(27) \o <<1>>
  /\ Decoded.err # Nil
  /\ werr.msg = "unknown compression type: [103 122 105 112 0 0 0 0 0 0 0 0 0 0 0 0 0 0 0 0 0 0 0 0 0 0 0 0 0 0 0 1]"

\* C12: with Decompress set and the gzip tag, when decoding the body fails
\* Write returns the decoder's error itself, with nothing joined to it, the
\* architecture is not checked and the sink is not written.
C12_DecompressorErrorVerbatim ==
  (Decompressing /\ RawTag = GzipTag /\ Decoded.err # Nil) =>
    /\ werr = Decoded.err
    /\ werr.wraps = {}
    /\ werr.msg \in {"gzip: invalid header", "gzip: invalid checksum", "unexpected EOF", "EOF"}
    /\ span = <<>>
    /\ calls = <<>>

C12_Witness ==
  /\ Decompressing /\ RawTag = GzipTag
  /\ Len(Decoded.data) > 0 /\ Len(Decoded.data) < ARM64MagicOffset
  /\ werr = [msg |-> "unexpected EOF", wraps |-> {}]

\* C13: with Decompress set, when the body decodes to fewer than 56 bytes
\* Write fails with "invalid response payload: " and the decoded length.
C13_PayloadTooShort ==
  (Decompressing /\ RawTag = GzipTag /\ Decoded.err = Nil /\ Len(Decoded.data) < 56) =>
    /\ werr = [msg |-> "invalid response payload: " \o ToString(Len(Decoded.data)), wraps |-> {}]
    /\ calls = <<>>

C13_Witness ==
  /\ Decompressing
  /\ Len(Decoded.data) = 55
  /\ werr.msg = "invalid response payload: 55"

\* the bytes the decoded payload has at the offsets 56..59
Observed ==
  [i \in 1..Min(4, Len(Decoded.data) - ARM64MagicOffset) |-> Decoded.data[ARM64MagicOffset + i]]

\* the architecture check was reached
Sniffed ==
  Decompressing /\ RawTag = GzipTag /\ Decoded.err = Nil /\ Len(Decoded.data) >= ARM64MagicOffset

\* C14 (as claimed): whenever the architecture check is reached, it passes
\* exactly when the payload's bytes at the offsets 56..59 are "ARM" and 100
\* or "RSC" and 5, and otherwise Write fails with "unknown payload type: "
\* and exactly those bytes of the payload.
C14_ArchitectureCheck ==
  Sniffed =>
    IF Observed \in {<<65, 82, 77, 100>>, <<82, 83, 67, 5>>}
    THEN werr \in {Nil, ErrShortWrite}
    ELSE werr = [msg |-> "unknown payload type: " \o SprintfV(Observed), wraps |-> {}]

\* C15: with Decompress set, the gzip tag, a body that decodes and "ARM" and
\* 100 or "RSC" and 5 at offset 56 of what was decoded, Write hands the sink
\* the decoded bytes, not the body, and fails only when the sink does.
C15_DecompressedWritten ==
  (Sniffed /\ Observed \in {<<65, 82, 77, 100>>, <<82, 83, 67, 5>>}) =>
    /\ calls = <<Decoded.data>>
    /\ Decoded.data # info.body
    /\ werr \in {Nil, ErrShortWrite}
    /\ werr = Nil <=> taken = Decoded.data

C15_Witness ==
  /\ Decompressing /\ RawTag = GzipTag
  /\ werr = Nil
  /\ taken = ArmImage
  /\ Len(info.body) > Len(ArmImage)

\* C16: the sink is called at most once, only by the step that ends Write
\* and only when no stage before it failed: Write then returns what the sink
\* returns, the sink's failure included; when Write fails with the empty
\* body, the unknown compression type, the decoder's error, the payload too
\* short or the unknown architecture, the sink was not called.
C16_SinkWrittenOnceLast ==
  [][/\ Len(calls') <= 1
     /\ calls' # calls => (pc = "read" /\ pc' = "written")
     /\ pc' = "written" =>
          /\ werr' \in {Nil, ErrShortWrite} <=> Len(calls') = 1
          /\ werr' \notin {Nil, ErrShortWrite} <=> calls' = <<>>
          /\ Len(calls') = 1 => (taken' # calls'[1] <=> werr' = ErrShortWrite)
          /\ calls' = <<>> => taken' = <<>>]_vars

C16_Witness ==
  /\ Decompressing
  /\ calls = <<ArmImage>>
  /\ taken = <<>>
  /\ werr = ErrShortWrite

\* the bytes of each datum as the package documents them
Canonical ==
  [LinuxMagic |-> <<205, 35, 130, 129>>,
   ARM |-> <<65, 82, 77, 100>>,
   RISC |-> <<82, 83, 67, 5>>,
   Gzip |-> <<103, 122, 105, 112, 0, 0, 0, 0, 0, 0, 0, 0, 0, 0, 0, 0, 0, 0, 0, 0, 0, 0, 0, 0, 0, 0, 0, 0, 0, 0, 0, 0>>,
   MSDOSMagic |-> <<77, 90>>,
   ZImg |-> <<122, 105, 109, 103>>]

\* C17: every call of Data() on one of the package's datums, before, between
\* and after ReadInfo, Write and other calls of Data(), returns the datum's
\* canonical bytes.
C17_DataCanonical ==
  got.datum # "" => got.data = Canonical[got.datum]

C17_Witness ==
  /\ pc = "written" /\ werr = Nil /\ info.unpacker.Decompress
  /\ got.datum = "Gzip"
  /\ Len(got.data) = 32 /\ got.data[4] = 112 /\ got.data[32] = 0

\* C18 (as claimed): whenever the architecture check is reached, on payloads
\* of 56, 57, 58 and 59 bytes too, the range it slices lies inside the
\* decoded payload and Write returns nil or an error without panicking.
C18_ArchitectureCheckInBounds ==
  Sniffed =>
    /\ "panic" \notin werr.wraps
    /\ span # <<>> => span[2] <= Len(Decoded.data)

====
